---- MODULE Spec2Model ----
(***************************************************************************)
(* Model of the AstrBot status plugin: the metrics collector               *)
(* (system_info.py), the card compositor (kawaii_renderer.py) and the      *)
(* caching command layer (main.py).                                        *)
(*                                                                         *)
(* Numbers: capacities are kept in MiB on the OS side and in hundredths of *)
(* a GB once bytes_to_gb has rounded them; a used/total percentage is the  *)
(* exact fraction <<numerator, denominator>>; the network shares are       *)
(* binary64 floats; a byte count handed to format_bytes is a base-1024     *)
(* numeral; wall-clock time is in seconds.                                 *)
(***************************************************************************)
EXTENDS Integers, Sequences, FiniteSets, TLC

\* ------------------------------------------------------------------ bounds
MaxTime == 90            \* the clock stops advancing here
Quantum == 30            \* granularity of the clock, in seconds
MaxExpireMinutes == 1    \* cache_expire_minutes ranges over 0..MaxExpireMinutes
NumReq == 2              \* status requests that can be in flight together
MaxDays == 2             \* uptimes range over 0..MaxDays whole days (plus h, m, s)
MaxPb == 2               \* byte counts range up to MaxPb * 1024^5 and a remainder

\* --------------------------------------------------------- program constants
SecondsPerMinute == 60
SecondsPerHour == 3600
SecondsPerDay == 86400
MibPerGb == 1024

\* ------------------------------------------------------------------ helpers
\* Python's round()/format rounding of the exact quotient n/d: half to even.
RoundHalfEven(n, d) ==
    LET q == n \div d
        r == n % d
    IN  IF 2 * r < d THEN q
        ELSE IF 2 * r > d THEN q + 1
        ELSE IF q % 2 = 0 THEN q ELSE q + 1

\* ----------------------------------------------------- binary64 arithmetic
\* A Python float is an IEEE-754 double: <<>> for 0.0, else a significand of
\* SigBits bits, most significant (a 1) first, times 2^exp.  Only positive
\* values occur here.
SigBits == 53

\* Fraction bits a quotient is developed to before it is rounded.
QuotBits == 80

\* Bits handled in one machine-integer operation by the operators below.
ChunkBits == 20

Zeros(n) == [i \in 1..n |-> 0]

\* bits as a string of n bits.
Pad(bits, n) == Zeros(n - Len(bits)) \o bits

RECURSIVE IntBits(_)
IntBits(n) == IF n = 0 THEN <<>> ELSE Append(IntBits(n \div 2), n % 2)

RECURSIVE BitsInt(_)
BitsInt(bits) ==
    IF bits = <<>> THEN 0
    ELSE 2 * BitsInt(SubSeq(bits, 1, Len(bits) - 1)) + bits[Len(bits)]

StripZeros(bits) ==
    LET ones == {i \in 1..Len(bits) : bits[i] = 1}
    IN  IF ones = {} THEN <<>>
        ELSE SubSeq(bits, CHOOSE i \in ones : \A j \in ones : i <= j, Len(bits))

\* bits + 1
IncBits(bits) ==
    LET zeros == {i \in 1..Len(bits) : bits[i] = 0}
    IN  IF zeros = {} THEN << 1 >> \o Zeros(Len(bits))
        ELSE LET p == CHOOSE i \in zeros : \A j \in zeros : j <= i
             IN  SubSeq(bits, 1, p - 1) \o << 1 >> \o Zeros(Len(bits) - p)

FZero == [sig |-> <<>>, exp |-> 0]

\* The double nearest to bits * 2^exp (plus something below the last bit
\* when sticky), ties to the even significand.
FRound(bits0, exp, sticky) ==
    LET bits == StripZeros(bits0)
        n == Len(bits)
    IN  IF n = 0 THEN FZero
        ELSE IF n <= SigBits
        THEN [sig |-> bits \o Zeros(SigBits - n), exp |-> exp - (SigBits - n)]
        ELSE LET keep == SubSeq(bits, 1, SigBits)
                 rest == sticky \/ \E i \in (SigBits + 2)..n : bits[i] = 1
                 up == bits[SigBits + 1] = 1 /\ (rest \/ keep[SigBits] = 1)
                 r == IF up THEN IncBits(keep) ELSE keep
             IN  IF Len(r) > SigBits
                 THEN [sig |-> SubSeq(r, 1, SigBits), exp |-> exp + (n - SigBits) + 1]
                 ELSE [sig |-> r, exp |-> exp + (n - SigBits)]

\* float(n) for a small non-negative int.
FInt(n) == FRound(IntBits(n), 0, FALSE)

\* The first n fraction bits of r / d, for 0 <= r < d < 2^11, and the
\* remainder left.
RECURSIVE QuotientBits(_, _, _)
QuotientBits(r, d, n) ==
    IF n <= ChunkBits
    THEN LET t == r * 2^n
         IN  [bits |-> Pad(IntBits(t \div d), n), rem |-> t % d]
    ELSE LET hi == QuotientBits(r, d, ChunkBits)
             lo == QuotientBits(hi.rem, d, n - ChunkBits)
         IN  [bits |-> hi.bits \o lo.bits, rem |-> lo.rem]

\* a / b on ints (true division): the correctly rounded quotient.
FDivInt(a, b) ==
    LET q == QuotientBits(a % b, b, QuotBits)
    IN  FRound(IntBits(a \div b) \o q.bits, 0 - QuotBits, q.rem # 0)

\* bits * k + carry, for k and carry below 2^10: as many low bits as bits
\* has, and what is carried out.
RECURSIVE TimesSmall(_, _, _)
TimesSmall(bits, k, carry) ==
    LET n == Len(bits)
    IN  IF n <= ChunkBits
        THEN LET t == BitsInt(bits) * k + carry
             IN  [bits |-> Pad(IntBits(t % 2^n), n), carry |-> t \div 2^n]
        ELSE LET lo == TimesSmall(SubSeq(bits, n - ChunkBits + 1, n), k, carry)
                 hi == TimesSmall(SubSeq(bits, 1, n - ChunkBits), k, lo.carry)
             IN  [bits |-> hi.bits \o lo.bits, carry |-> hi.carry]

\* x * k for a float x and a small positive int k.
FTimesInt(x, k) ==
    IF x.sig = <<>> THEN FZero
    ELSE LET p == TimesSmall(x.sig, k, 0)
         IN  FRound(IntBits(p.carry) \o p.bits, x.exp, FALSE)

\* a + b + carry for two bit strings of one length.
RECURSIVE AddBits(_, _, _)
AddBits(a, b, carry) ==
    LET n == Len(a)
    IN  IF n <= ChunkBits
        THEN LET t == BitsInt(a) + BitsInt(b) + carry
             IN  [bits |-> Pad(IntBits(t % 2^n), n), carry |-> t \div 2^n]
        ELSE LET lo == AddBits(SubSeq(a, n - ChunkBits + 1, n),
                               SubSeq(b, n - ChunkBits + 1, n), carry)
                 hi == AddBits(SubSeq(a, 1, n - ChunkBits),
                               SubSeq(b, 1, n - ChunkBits), lo.carry)
             IN  [bits |-> hi.bits \o lo.bits, carry |-> hi.carry]

\* x + y
FAdd(x, y) ==
    IF x.sig = <<>> THEN y
    ELSE IF y.sig = <<>> THEN x
    ELSE LET e == IF x.exp < y.exp THEN x.exp ELSE y.exp
             a == x.sig \o Zeros(x.exp - e)
             b == y.sig \o Zeros(y.exp - e)
             n == IF Len(a) > Len(b) THEN Len(a) ELSE Len(b)
             t == AddBits(Zeros(n - Len(a)) \o a, Zeros(n - Len(b)) \o b, 0)
         IN  FRound(IntBits(t.carry) \o t.bits, e, FALSE)

\* f"{x:.0f}": the integer printed for a float x, ties to even.
FFormat0(x) ==
    IF x.sig = <<>> THEN 0
    ELSE IF x.exp >= 0 THEN BitsInt(x.sig \o Zeros(x.exp))
    ELSE LET k == SigBits + x.exp
             full == IF k < 0 THEN Zeros(0 - k) \o x.sig ELSE x.sig
             ip == IF k < 0 THEN 0 ELSE k
             q == BitsInt(SubSeq(full, 1, ip))
             frac == SubSeq(full, ip + 1, Len(full))
         IN  IF frac[1] = 0 THEN q
             ELSE IF \E i \in 2..Len(frac) : frac[i] = 1 THEN q + 1
             ELSE IF q % 2 = 0 THEN q ELSE q + 1

\* A call either returns a value or raises an exception (named by its class).
Ok(v) == [ok |-> TRUE, exc |-> "", val |-> v]
Raise(e) == [ok |-> FALSE, exc |-> e]

NoExc == ""

\* isinstance(e, (OSError, AttributeError, PermissionError)); PermissionError
\* is a subclass of OSError.
IsOSAttrPermError(e) == e \in {"OSError", "PermissionError", "AttributeError"}

\* ============================================================ system_info.py

\* round(bytes_value / 1024**3, 2), for bytes_value = mib * 1024**2, in
\* hundredths of a GB.
bytes_to_gb(mib) == RoundHalfEven(mib * 100, MibPerGb)

\* psutil.cpu_percent / cpu_freq / cpu_count / cpuinfo are called unguarded;
\* only the temperature read is wrapped.  usage is in whole percent.
get_cpu_info(env) ==
    IF env.cpu_exc # NoExc THEN Raise(env.cpu_exc)
    ELSE Ok([usage |-> env.cpu_percent, cores |-> env.cpu_count])

get_memory_info(env) ==
    IF env.mem_exc # NoExc THEN Raise(env.mem_exc)
    ELSE Ok([total |-> bytes_to_gb(env.mem_total),
             used  |-> bytes_to_gb(env.mem_used)])

ZeroSwap == [total |-> 0, used |-> 0]

\* is_docker_environment() only selects the log line; the value returned is
\* the same either way.
get_swap_info(env) ==
    IF env.swap_exc # NoExc
    THEN IF IsOSAttrPermError(env.swap_exc) THEN Ok(ZeroSwap)
         ELSE Raise(env.swap_exc)
    ELSE IF env.swap_total = 0 THEN Ok(ZeroSwap)
    ELSE Ok([total |-> bytes_to_gb(env.swap_total),
             used  |-> bytes_to_gb(env.swap_used)])

\* usage = round((disk.used / disk.total) * 100, 1) on the raw byte counts:
\* a zero total raises ZeroDivisionError.  usage is in tenths of a percent.
get_disk_info(env) ==
    IF env.disk_exc # NoExc THEN Raise(env.disk_exc)
    ELSE IF env.disk_total = 0 THEN Raise("ZeroDivisionError")
    ELSE Ok([total |-> bytes_to_gb(env.disk_total),
             used  |-> bytes_to_gb(env.disk_used),
             usage |-> RoundHalfEven(env.disk_used * 1000, env.disk_total)])

get_network_info(env) ==
    IF env.net_exc # NoExc THEN Raise(env.net_exc)
    ELSE Ok([bytes_sent |-> env.bytes_sent, bytes_recv |-> env.bytes_recv])

\* The two placeholders of get_gpu_info.
UnknownGpu == [name |-> "Unknown GPU", usage |-> 0, memory_used |-> 0,
               memory_total |-> 0]
NoGpu == [name |-> "No GPU", usage |-> 0, memory_used |-> 0,
          memory_total |-> 0]

\* The GPUtil probe (second inner try): reached only when the pynvml import
\* failed.  probed records the backends whose import was attempted.
probe_gputil(env, probed) ==
    LET tried == Append(probed, "GPUtil")
    IN  IF env.gputil = "ImportError"
        THEN [info |-> UnknownGpu, probed |-> tried]
        ELSE IF env.gputil = "empty"
        THEN [info |-> UnknownGpu, probed |-> tried]
        ELSE IF env.gputil = "ok"
        THEN [info |-> [name |-> "GPUtil GPU",
                        usage |-> env.gpu_usage,
                        memory_used |-> bytes_to_gb(env.gpu_mem_used),
                        memory_total |-> bytes_to_gb(env.gpu_mem_total)],
              probed |-> tried]
        ELSE [info |-> NoGpu, probed |-> tried]   \* outer except Exception

\* get_gpu_info with a fault: every failure of the pynvml probe falls through
\* to GPUtil.
get_gpu_info_fallthrough(env) ==
    IF env.pynvml = "ok"
    THEN [info |-> [name |-> "NVML GPU",
                    usage |-> env.gpu_usage,
                    memory_used |-> bytes_to_gb(env.gpu_mem_used),
                    memory_total |-> bytes_to_gb(env.gpu_mem_total)],
          probed |-> <<"pynvml">>]
    ELSE probe_gputil(env, <<"pynvml">>)

\* env.pynvml: "ok", "ImportError" (module missing) or another exception of
\* the NVML calls; env.gputil: "ok", "empty" (no device listed),
\* "ImportError" or another exception.  A failed temperature read is
\* absorbed by the bare except and only leaves temperature = None.
get_gpu_info(env) ==
    IF env.pynvml = "ok"
    THEN [info |-> [name |-> "NVML GPU",
                    usage |-> env.gpu_usage,
                    memory_used |-> bytes_to_gb(env.gpu_mem_used),
                    memory_total |-> bytes_to_gb(env.gpu_mem_total)],
          probed |-> <<"pynvml">>]
    ELSE IF env.pynvml = "ImportError"
    THEN probe_gputil(env, <<"pynvml">>)
    ELSE [info |-> NoGpu, probed |-> <<"pynvml">>]   \* outer except Exception

\* format_uptime with a fault: the days branch leaves the minutes out.
format_uptime_two_units(uptime_seconds) ==
    LET days == uptime_seconds \div SecondsPerDay
        hours == (uptime_seconds % SecondsPerDay) \div SecondsPerHour
        minutes == (uptime_seconds % SecondsPerHour) \div SecondsPerMinute
    IN  IF days > 0
        THEN << [n |-> days, unit |-> "days"], [n |-> hours, unit |-> "hours"] >>
        ELSE IF hours > 0
        THEN << [n |-> hours, unit |-> "hours"],
                [n |-> minutes, unit |-> "minutes"] >>
        ELSE << [n |-> minutes, unit |-> "minutes"] >>

\* The formatted string as its sequence of "<n><unit>" components; the units
\* "days", "hours", "minutes" stand for the suffixes of the f-strings.
format_uptime(uptime_seconds) ==
    LET days == uptime_seconds \div SecondsPerDay
        hours == (uptime_seconds % SecondsPerDay) \div SecondsPerHour
        minutes == (uptime_seconds % SecondsPerHour) \div SecondsPerMinute
    IN  IF days > 0
        THEN << [n |-> days, unit |-> "days"], [n |-> hours, unit |-> "hours"],
                [n |-> minutes, unit |-> "minutes"] >>
        ELSE IF hours > 0
        THEN << [n |-> hours, unit |-> "hours"],
                [n |-> minutes, unit |-> "minutes"] >>
        ELSE << [n |-> minutes, unit |-> "minutes"] >>

get_system_info(env) ==
    IF env.sys_exc # NoExc THEN Raise(env.sys_exc)
    ELSE Ok([uptime |-> format_uptime(env.uptime_seconds)])

\* The dict literal evaluates its values in order; the first exception
\* propagates to the caller.
get_all_status_info(env) ==
    LET cpu == get_cpu_info(env)
        memory == get_memory_info(env)
        swap == get_swap_info(env)
        disk == get_disk_info(env)
        network == get_network_info(env)
        gpu == get_gpu_info(env)
        system == get_system_info(env)
    IN  IF ~cpu.ok THEN Raise(cpu.exc)
        ELSE IF ~memory.ok THEN Raise(memory.exc)
        ELSE IF ~swap.ok THEN Raise(swap.exc)
        ELSE IF ~disk.ok THEN Raise(disk.exc)
        ELSE IF ~network.ok THEN Raise(network.exc)
        ELSE IF ~system.ok THEN Raise(system.exc)
        ELSE Ok([cpu |-> cpu.val, memory |-> memory.val, swap |-> swap.val,
                 disk |-> disk.val, network |-> <<network.val>>,
                 gpu |-> gpu.info, system |-> system.val])

\* ======================================================== kawaii_renderer.py

\* A draw call on the canvas.  kind: "label" (fixed heading), "row" (value
\* text under a heading), "arc" (ring gauge), "hole" (centre ellipse),
\* "percent" (label inside the ring), "detail" (system details block).
\* fmt names the f-string or angle formula and val holds its numbers.
Draw(kind, slot, fmt, val) == [kind |-> kind, slot |-> slot, fmt |-> fmt, val |-> val]

\* The step between two units of format_bytes.
UnitStep == 1024

\* A byte count is kept as its base-1024 numeral, least significant digit
\* first: <<d0, ..., d5>> stands for d0 + d1 * 1024 + ... + d5 * 1024^5.  The
\* counts stay below 2^53, so float(bytes_value) and every value /= 1024.0
\* are exact.
Bytes1024(n) ==
    << n % UnitStep, (n \div UnitStep) % UnitStep,
       ((n \div UnitStep) \div UnitStep) % UnitStep,
       ((n \div UnitStep) \div UnitStep) \div UnitStep, 0, 0 >>

\* value = float(bytes_value): whole holds the digits of the integer part,
\* least significant first, frac those after the point, most significant
\* first.
ToFloat(bytes_value) == [whole |-> bytes_value, frac |-> <<>>]

\* value < 1024.0
BelowStep(value) == \A i \in 2..Len(value.whole) : value.whole[i] = 0

\* value /= 1024.0
DivStep(value) ==
    [whole |-> IF Len(value.whole) > 1 THEN Tail(value.whole) ELSE << 0 >>,
     frac |-> << Head(value.whole) >> \o value.frac]

\* Ten times a fraction: the digit carried into the integer part and the
\* fraction left.
RECURSIVE TimesTen(_)
TimesTen(frac) ==
    IF frac = <<>> THEN [carry |-> 0, digits |-> <<>>]
    ELSE LET rest == TimesTen(Tail(frac))
             t == 10 * Head(frac) + rest.carry
         IN  [carry |-> t \div UnitStep, digits |-> << t % UnitStep >> \o rest.digits]

\* f"{value:.1f}" for a value whose integer part is whole[1]: the number
\* printed, in tenths, rounded half to even.
OneDecimal(value) ==
    LET x == TimesTen(value.frac)
        q == 10 * value.whole[1] + x.carry
        g == x.digits
    IN  IF g = <<>> \/ 2 * g[1] < UnitStep THEN q
        ELSE IF 2 * g[1] > UnitStep \/ \E i \in 2..Len(g) : g[i] # 0 THEN q + 1
        ELSE IF q % 2 = 0 THEN q ELSE q + 1

\* The loop of format_bytes over the units 0..4 = B, KB, MB, GB, TB, and the
\* final return in unit 5 = PB: <<the number printed in tenths, the unit>>.
RECURSIVE format_bytes_loop(_, _)
format_bytes_loop(value, unit) ==
    IF unit > 4 THEN << OneDecimal(value), 5 >>
    ELSE IF BelowStep(value) THEN << OneDecimal(value), unit >>
    ELSE format_bytes_loop(DivStep(value), unit + 1)

format_bytes(bytes_value) == format_bytes_loop(ToFloat(bytes_value), 0)

\* `if network_info:` -- the entry is absent once status_command popped it.
\* Swap and GPU snapshots are dataclass instances, which are always truthy.
HasNetwork(info) == Len(info.network) > 0

\* render(), lines 92-150: headings and value rows.
draw_text_rows(info) ==
       << Draw("label", "nickname", "AstrBot", <<>>),
          Draw("label", "cpu", "CPU", <<>>),
          Draw("row", "cpu", "usage.1f% [cores]", << info.cpu.usage, info.cpu.cores >>),
          Draw("label", "ram", "RAM", <<>>),
          Draw("row", "ram", "used / total GB", << info.memory.used, info.memory.total >>),
          Draw("label", "swap", "SWAP", <<>>) >>
    \o (IF info.swap.total > 0
        THEN << Draw("row", "swap", "used / total GB", << info.swap.used, info.swap.total >>) >>
        ELSE <<>>)
    \o << Draw("label", "download", "download", <<>>) >>
    \o (IF HasNetwork(info)
        THEN << Draw("row", "download", "format_bytes", format_bytes(Bytes1024(info.network[1].bytes_recv))) >>
        ELSE <<>>)
    \o << Draw("label", "gpu", "GPU", <<>>),
          IF info.gpu.memory_total > 0
          THEN Draw("row", "gpu", "used / total GB", << info.gpu.memory_used, info.gpu.memory_total >>)
          ELSE Draw("row", "gpu", "usage.1f%", << info.gpu.usage >>),
          Draw("label", "disk", "DISK", <<>>),
          Draw("row", "disk", "used / total GB", << info.disk.used, info.disk.total >>),
          Draw("label", "upload", "upload", <<>>) >>
    \o (IF HasNetwork(info)
        THEN << Draw("row", "upload", "format_bytes", format_bytes(Bytes1024(info.network[1].bytes_sent))) >>
        ELSE <<>>)

\* The float divisions of _draw_progress_arcs that have no guard: RAM
\* (lines 192, 305) and DISK (lines 252, 355).
arcs_raise(info) == info.memory.total = 0 \/ info.disk.total = 0

\* A ring gauge from -90 degrees to percent * 3.6 - 90, percent = val[1]/val[2].
Arc(slot, num, den) == Draw("arc", slot, "percent * 3.6 - 90", << num, den >>)

\* The network rings: min(100, log10(bytes + 1) / log10(1024**4) * 100), and
\* 0 for bytes = 0; kept as the formula's argument.
LogArc(slot, bytes) == Draw("arc", slot, "min(100, log10(b + 1) / log10(1024**4) * 100) * 3.6 - 90", << bytes >>)

\* The f"{p:.0f}%" label of the exact percentage num/den.
Percent(slot, num, den) == Draw("percent", slot, ".0f%", << RoundHalfEven(num, den) >>)

\* _draw_progress_arcs, lines 181-282, when no division raises.
draw_arcs(info) ==
       << Arc("cpu", info.cpu.usage, 1),
          Arc("ram", info.memory.used * 100, info.memory.total) >>
    \o (IF info.swap.total > 0
        THEN << Arc("swap", info.swap.used * 100, info.swap.total) >>
        ELSE <<>>)
    \o (IF HasNetwork(info) THEN << LogArc("download", info.network[1].bytes_recv) >> ELSE <<>>)
    \o << IF info.gpu.memory_total > 0
          THEN Arc("gpu", info.gpu.memory_used * 100, info.gpu.memory_total)
          ELSE Arc("gpu", info.gpu.usage, 1),
          Arc("disk", info.disk.used * 100, info.disk.total) >>
    \o (IF HasNetwork(info) THEN << LogArc("upload", info.network[1].bytes_sent) >> ELSE <<>>)

\* lines 284-293: the seven centre ellipses, drawn unconditionally.
draw_holes ==
    << Draw("hole", "cpu", "ellipse", <<>>), Draw("hole", "ram", "ellipse", <<>>),
       Draw("hole", "swap", "ellipse", <<>>), Draw("hole", "download", "ellipse", <<>>),
       Draw("hole", "gpu", "ellipse", <<>>), Draw("hole", "disk", "ellipse", <<>>),
       Draw("hole", "upload", "ellipse", <<>>) >>

\* network_share with a fault: each direction is given the other one's share.
network_share_other(this_direction, info) ==
    LET total_network == info.network[1].bytes_sent + info.network[1].bytes_recv
    IN  IF total_network > 0
        THEN FTimesInt(FDivInt(total_network - this_direction, total_network), 100)
        ELSE FZero

\* The directional share of lines 325-338 and 364-377:
\* (this_direction / total_network) * 100 in floats, or 0.
network_share(this_direction, info) ==
    LET total_network == info.network[1].bytes_sent + info.network[1].bytes_recv
    IN  IF total_network > 0
        THEN FTimesInt(FDivInt(this_direction, total_network), 100)
        ELSE FZero

\* The f"{p:.0f}%" label of a float.
PercentOfFloat(slot, p) == Draw("percent", slot, ".0f%", << FFormat0(p) >>)

\* _draw_progress_arcs, lines 295-377, when no division raises.
draw_percents(info) ==
       << Percent("cpu", info.cpu.usage, 1),
          Percent("ram", info.memory.used * 100, info.memory.total) >>
    \o (IF info.swap.total > 0
        THEN << Percent("swap", info.swap.used * 100, info.swap.total) >>
        ELSE <<>>)
    \o (IF HasNetwork(info)
        THEN << PercentOfFloat("download", network_share(info.network[1].bytes_recv, info)) >>
        ELSE <<>>)
    \o << IF info.gpu.memory_total > 0
          THEN Percent("gpu", info.gpu.memory_used * 100, info.gpu.memory_total)
          ELSE Percent("gpu", info.gpu.usage, 1),
          Percent("disk", info.disk.used * 100, info.disk.total) >>
    \o (IF HasNetwork(info)
        THEN << PercentOfFloat("upload", network_share(info.network[1].bytes_sent, info)) >>
        ELSE <<>>)

\* _draw_system_details: the brand lookup is wrapped in try/except and the
\* plugin count in its own; the uptime row prints system_info.uptime.
draw_system_details(info) ==
    << Draw("detail", "cpu_brand", "brand", <<>>),
       Draw("detail", "system", "system release", <<>>),
       Draw("detail", "version", "AstrBot v3.5.22", <<>>),
       Draw("detail", "plugins", "n plugins", <<>>),
       Draw("detail", "uptime_label", "label", <<>>),
       Draw("detail", "uptime", "uptime",
            [i \in 1..Len(info.system.uptime) |-> info.system.uptime[i].n]) >>

\* render(status_info) -> the PNG bytes, kept as the sequence of draw calls
\* composited onto the background; an exception leaves no image at all.
render(info) ==
    IF arcs_raise(info) THEN Raise("ZeroDivisionError")
    ELSE Ok(draw_text_rows(info) \o draw_arcs(info) \o draw_holes
            \o draw_percents(info) \o draw_system_details(info))


\* ================================================================== main.py

VARIABLES
    cfg,      \* the configuration read once by __init__ (and whether the imports worked)
    cache,    \* self.cache: key -> (image_data, timestamp)
    now,      \* time.time()
    pc,       \* per status request: "idle", or "yielded" (suspended at its yield)
    out,      \* per status request: the results it has yielded
    calls,    \* per status request: how often it invoked the collector and the renderer
    op,       \* the last call or command: what it was, what it returned, which path it took
    arg,      \* input of the collector / compositor calls
    result    \* what the last collector / compositor call returned

vars == << cfg, cache, now, pc, out, calls, op, arg, result >>

Requests == 1..NumReq

\* Optional[bytes]
None == [some |-> FALSE, val |-> <<>>]
Some(v) == [some |-> TRUE, val |-> v]

EmptyCache == [k \in {} |-> [image_data |-> <<>>, timestamp |-> 0]]

\* str() of a bool, as get_cache_key joins it.
Str(b) == IF b THEN "True" ELSE "False"

\* md5 of the "|"-joined arguments: the digest is kept as a tag around the
\* joined content (no collisions).
get_cache_key(args) == [md5 |-> args]

\* The key status_command computes (lines 179-181).
StatusKey ==
    get_cache_key(<< "status", cfg.theme, Str(cfg.show_network),
                     Str(cfg.show_process_count) >>)

\* get_cached_image with a fault: an expired entry is reported absent but left
\* in the map.
get_cached_image_keep(c, cache_key, t) ==
    IF ~cfg.cache_enabled \/ cache_key \notin DOMAIN c
    THEN [ret |-> None, cache |-> c,
          path |-> IF ~cfg.cache_enabled THEN "disabled" ELSE "absent"]
    ELSE IF t - c[cache_key].timestamp > cfg.cache_expire
    THEN [ret |-> None, cache |-> c, path |-> "expired"]
    ELSE [ret |-> Some(c[cache_key].image_data), cache |-> c, path |-> "fresh"]

\* get_cached_image with a fault: a hit stamps the entry with the time of the
\* read.
get_cached_image_touch(c, cache_key, t) ==
    IF ~cfg.cache_enabled \/ cache_key \notin DOMAIN c
    THEN [ret |-> None, cache |-> c,
          path |-> IF ~cfg.cache_enabled THEN "disabled" ELSE "absent"]
    ELSE IF t - c[cache_key].timestamp > cfg.cache_expire
    THEN [ret |-> None,
          cache |-> [k \in DOMAIN c \ {cache_key} |-> c[k]],
          path |-> "expired"]
    ELSE [ret |-> Some(c[cache_key].image_data),
          cache |-> [c EXCEPT ![cache_key].timestamp = t],
          path |-> "fresh"]

\* get_cached_image on cache map c at time t: the value returned, the map
\* afterwards and the branch taken.
get_cached_image(c, cache_key, t) ==
    IF ~cfg.cache_enabled \/ cache_key \notin DOMAIN c
    THEN [ret |-> None, cache |-> c,
          path |-> IF ~cfg.cache_enabled THEN "disabled" ELSE "absent"]
    ELSE IF t - c[cache_key].timestamp > cfg.cache_expire
    THEN [ret |-> None,
          cache |-> [k \in DOMAIN c \ {cache_key} |-> c[k]],
          path |-> "expired"]
    ELSE [ret |-> Some(c[cache_key].image_data), cache |-> c, path |-> "fresh"]

\* cache_image with a fault: an existing entry keeps its old timestamp.
cache_image_keep_stamp(c, cache_key, image_data, t) ==
    IF cfg.cache_enabled
    THEN [k \in DOMAIN c \cup {cache_key} |->
            IF k = cache_key
            THEN [image_data |-> image_data,
                  timestamp |-> IF k \in DOMAIN c THEN c[k].timestamp ELSE t]
            ELSE c[k]]
    ELSE c

\* cache_image with a fault: the image is stored whether or not caching is
\* enabled.
cache_image_always(c, cache_key, image_data, t) ==
    [k \in DOMAIN c \cup {cache_key} |->
        IF k = cache_key THEN [image_data |-> image_data, timestamp |-> t]
        ELSE c[k]]

cache_image(c, cache_key, image_data, t) ==
    IF cfg.cache_enabled
    THEN [k \in DOMAIN c \cup {cache_key} |->
            IF k = cache_key THEN [image_data |-> image_data, timestamp |-> t]
            ELSE c[k]]
    ELSE c

\* clean_expired_cache with a fault: the comparison is >= instead of >.
clean_expired_cache_ge(c, current_time) ==
    LET expired_keys ==
            {key \in DOMAIN c : current_time - c[key].timestamp >= cfg.cache_expire}
    IN  [k \in DOMAIN c \ expired_keys |-> c[k]]

clean_expired_cache(c, current_time) ==
    LET expired_keys ==
            {key \in DOMAIN c : current_time - c[key].timestamp > cfg.cache_expire}
    IN  [k \in DOMAIN c \ expired_keys |-> c[k]]

\* Both branches of is_authorized return True.
is_authorized == TRUE

plain_result(text) == [type |-> "text", text |-> text, image |-> <<>>]
image_result(image_data) == [type |-> "image", text |-> "", image |-> image_data]

\* The record kept of a call or command: at is the clock value it read (for a
\* store, the timestamp it stamped); count is the number a command reports,
\* and for a sweep the number of entries it deleted.
Op(name, key, at, path, lookup, ret, count, swept) ==
    [name |-> name, key |-> key, at |-> at, path |-> path, lookup |-> lookup,
     ret |-> ret, count |-> count, swept |-> swept]

NoKey == get_cache_key(<<>>)

\* ------------------------------------------------------------ the host's answers

\* A host on which every query succeeds: 2 GiB of RAM, half used; no swap;
\* a 2 GiB disk; an NVML GPU; up for 1 h 1 min 5 s.
BaseEnv ==
    [cpu_exc |-> NoExc, cpu_percent |-> 25, cpu_count |-> 4,
     mem_exc |-> NoExc, mem_total |-> 2048, mem_used |-> 1024,
     swap_exc |-> NoExc, swap_total |-> 0, swap_used |-> 0,
     disk_exc |-> NoExc, disk_total |-> 2048, disk_used |-> 512,
     net_exc |-> NoExc, bytes_sent |-> 100, bytes_recv |-> 300,
     pynvml |-> "ok", gputil |-> "ImportError",
     gpu_usage |-> 50, gpu_mem_total |-> 2048, gpu_mem_used |-> 512,
     sys_exc |-> NoExc, uptime_seconds |-> 3665]

\* The hosts a status request may meet: a healthy one, a busier healthy one,
\* one whose CPU query raises, one whose RAM total rounds to 0.0 GB.
StatusEnvs ==
    { BaseEnv,
      [BaseEnv EXCEPT !.cpu_percent = 75],
      [BaseEnv EXCEPT !.cpu_exc = "OSError"],
      [BaseEnv EXCEPT !.mem_total = 4, !.mem_used = 2] }

\* What the collector returns on each of these hosts, and the card rendered
\* from it once status_command has filtered it (lines 192-200), computed once.
Collected == [env \in StatusEnvs |-> get_all_status_info(env)]

Rendered ==
    [env \in {e \in StatusEnvs : Collected[e].ok}, show_network \in BOOLEAN |->
        render(IF show_network THEN Collected[env].val
               ELSE [Collected[env].val EXCEPT !.network = <<>>])]

\* Seconds that pass while a request collects and renders, and between its
\* two later reads of the clock.
Delays == {0, Quantum}

\* ------------------------------------------------------------ status_command

\* What one run of status_command did: the map afterwards, the results
\* yielded, the path taken, what the lookup found, the collector and renderer
\* invocations, whether the sweep ran and how many entries it deleted, when
\* the image was stored, and the seconds that passed.
Outcome(c, results, path, lookup, collects, renders, swept, removed, at, elapsed) ==
    [cache |-> c, results |-> results, path |-> path, lookup |-> lookup,
     collects |-> collects, renders |-> renders, swept |-> swept,
     removed |-> removed, at |-> at, elapsed |-> elapsed]

\* status_command with a fault: the image is stored before it is known to have
\* rendered, so a failed render leaves an (empty) entry behind.
status_command_store_first(c, t, env, d1, d2) ==
    LET cache_key == StatusKey
        lookup == get_cached_image(c, cache_key, t)
        collected == Collected[env]
        rendered == Rendered[env, cfg.show_network]
        stored == cache_image(lookup.cache, cache_key, rendered.val, t + d1)
        swept == clean_expired_cache(stored, t + d1 + d2)
    IN  IF ~cfg.deps_ok
        THEN Outcome(c, << plain_result("dependencies missing") >>, "no_deps",
                     "none", 0, 0, FALSE, 0, t, 0)
        ELSE IF lookup.ret.some /\ Len(lookup.ret.val) > 0
        THEN Outcome(lookup.cache, << image_result(lookup.ret.val) >>, "hit",
                     lookup.path, 0, 0, FALSE, 0, t, 0)
        ELSE IF ~collected.ok
        THEN Outcome(lookup.cache, << plain_result("failed") >>, "collect_failed",
                     lookup.path, 1, 0, FALSE, 0, t, d1)
        ELSE IF ~rendered.ok
        THEN Outcome(cache_image(lookup.cache, cache_key, <<>>, t + d1),
                     << plain_result("failed") >>, "render_failed",
                     lookup.path, 1, 1, FALSE, 0, t, d1)
        ELSE Outcome(swept, << image_result(rendered.val) >>, "miss",
                     lookup.path, 1, 1, TRUE,
                     Cardinality(DOMAIN stored) - Cardinality(DOMAIN swept),
                     t + d1, d1 + d2)

\* status_command with a fault: the key also depends on the request (on how
\* long it takes), not on the configuration alone.
status_command_key_per_request(c, t, env, d1, d2) ==
    LET cache_key == get_cache_key(<< "status", cfg.theme, Str(cfg.show_network),
                                      Str(cfg.show_process_count), Str(d1 = 0) >>)
        lookup == get_cached_image(c, cache_key, t)
        collected == Collected[env]
        rendered == Rendered[env, cfg.show_network]
        stored == cache_image(lookup.cache, cache_key, rendered.val, t + d1)
        swept == clean_expired_cache(stored, t + d1 + d2)
    IN  IF ~cfg.deps_ok
        THEN Outcome(c, << plain_result("dependencies missing") >>, "no_deps",
                     "none", 0, 0, FALSE, 0, t, 0)
        ELSE IF lookup.ret.some /\ Len(lookup.ret.val) > 0
        THEN Outcome(lookup.cache, << image_result(lookup.ret.val) >>, "hit",
                     lookup.path, 0, 0, FALSE, 0, t, 0)
        ELSE IF ~collected.ok
        THEN Outcome(lookup.cache, << plain_result("failed") >>, "collect_failed",
                     lookup.path, 1, 0, FALSE, 0, t, d1)
        ELSE IF ~rendered.ok
        THEN Outcome(lookup.cache, << plain_result("failed") >>, "render_failed",
                     lookup.path, 1, 1, FALSE, 0, t, d1)
        ELSE Outcome(swept, << image_result(rendered.val) >>, "miss",
                     lookup.path, 1, 1, TRUE,
                     Cardinality(DOMAIN stored) - Cardinality(DOMAIN swept),
                     t + d1, d1 + d2)

\* status_command with a fault: the expired-entry sweep also runs when the
\* image is served from the map.
status_command_sweep_on_hit(c, t, env, d1, d2) ==
    LET cache_key == StatusKey
        lookup == get_cached_image(c, cache_key, t)
        collected == Collected[env]
        rendered == Rendered[env, cfg.show_network]
        stored == cache_image(lookup.cache, cache_key, rendered.val, t + d1)
        swept == clean_expired_cache(stored, t + d1 + d2)
    IN  IF ~cfg.deps_ok
        THEN Outcome(c, << plain_result("dependencies missing") >>, "no_deps",
                     "none", 0, 0, FALSE, 0, t, 0)
        ELSE IF lookup.ret.some /\ Len(lookup.ret.val) > 0
        THEN Outcome(clean_expired_cache(lookup.cache, t),
                     << image_result(lookup.ret.val) >>, "hit",
                     lookup.path, 0, 0, FALSE, 0, t, 0)
        ELSE IF ~collected.ok
        THEN Outcome(lookup.cache, << plain_result("failed") >>, "collect_failed",
                     lookup.path, 1, 0, FALSE, 0, t, d1)
        ELSE IF ~rendered.ok
        THEN Outcome(lookup.cache, << plain_result("failed") >>, "render_failed",
                     lookup.path, 1, 1, FALSE, 0, t, d1)
        ELSE Outcome(swept, << image_result(rendered.val) >>, "miss",
                     lookup.path, 1, 1, TRUE,
                     Cardinality(DOMAIN stored) - Cardinality(DOMAIN swept),
                     t + d1, d1 + d2)

\* status_command with a fault: the image found by the lookup is not used, so
\* every request collects and renders.
status_command_no_hit(c, t, env, d1, d2) ==
    LET cache_key == StatusKey
        lookup == get_cached_image(c, cache_key, t)
        collected == Collected[env]
        rendered == Rendered[env, cfg.show_network]
        stored == cache_image(lookup.cache, cache_key, rendered.val, t + d1)
        swept == clean_expired_cache(stored, t + d1 + d2)
    IN  IF ~cfg.deps_ok
        THEN Outcome(c, << plain_result("dependencies missing") >>, "no_deps",
                     "none", 0, 0, FALSE, 0, t, 0)
        ELSE IF ~collected.ok
        THEN Outcome(lookup.cache, << plain_result("failed") >>, "collect_failed",
                     lookup.path, 1, 0, FALSE, 0, t, d1)
        ELSE IF ~rendered.ok
        THEN Outcome(lookup.cache, << plain_result("failed") >>, "render_failed",
                     lookup.path, 1, 1, FALSE, 0, t, d1)
        ELSE Outcome(swept, << image_result(rendered.val) >>, "miss",
                     lookup.path, 1, 1, TRUE,
                     Cardinality(DOMAIN stored) - Cardinality(DOMAIN swept),
                     t + d1, d1 + d2)

\* status_command up to its single yield, started at time t on cache map c,
\* on a host answering env; the collection and rendering take d1 seconds and
\* d2 more pass between cache_image and clean_expired_cache.
status_command(c, t, env, d1, d2) ==
    LET cache_key == StatusKey
        lookup == get_cached_image(c, cache_key, t)
        collected == Collected[env]
        rendered == Rendered[env, cfg.show_network]
        stored == cache_image(lookup.cache, cache_key, rendered.val, t + d1)
        swept == clean_expired_cache(stored, t + d1 + d2)
    IN  IF ~cfg.deps_ok
        THEN Outcome(c, << plain_result("dependencies missing") >>, "no_deps",
                     "none", 0, 0, FALSE, 0, t, 0)
        ELSE IF ~is_authorized
        THEN Outcome(c, << plain_result("unauthorized") >>, "unauthorized",
                     "none", 0, 0, FALSE, 0, t, 0)
        ELSE IF lookup.ret.some /\ Len(lookup.ret.val) > 0
        THEN Outcome(lookup.cache, << image_result(lookup.ret.val) >>, "hit",
                     lookup.path, 0, 0, FALSE, 0, t, 0)
        ELSE IF ~collected.ok
        THEN Outcome(lookup.cache, << plain_result("failed") >>, "collect_failed",
                     lookup.path, 1, 0, FALSE, 0, t, d1)
        ELSE IF ~rendered.ok
        THEN Outcome(lookup.cache, << plain_result("failed") >>, "render_failed",
                     lookup.path, 1, 1, FALSE, 0, t, d1)
        ELSE Outcome(swept, << image_result(rendered.val) >>, "miss",
                     lookup.path, 1, 1, TRUE,
                     Cardinality(DOMAIN stored) - Cardinality(DOMAIN swept),
                     t + d1, d1 + d2)

\* ------------------------------------------------------------------ actions

NoArg == [fn |-> "none"]

InitPlugin ==
    /\ cfg \in [deps_ok : BOOLEAN, cache_enabled : BOOLEAN,
                cache_expire : {m * SecondsPerMinute : m \in 0..MaxExpireMinutes},
                theme : {"light"}, show_network : BOOLEAN,
                show_process_count : {TRUE}]
    /\ cache = EmptyCache
    /\ now = 0
    /\ pc = [r \in Requests |-> "idle"]
    /\ out = [r \in Requests |-> <<>>]
    /\ calls = [r \in Requests |-> [collect |-> 0, render |-> 0]]
    /\ op = [name |-> "init", key |-> NoKey, at |-> 0, path |-> "none", lookup |-> "none",
             ret |-> None, count |-> 0, swept |-> FALSE]

Init ==
    /\ InitPlugin
    /\ arg = NoArg
    /\ result = NoArg

\* The wall clock advances.
Tick ==
    /\ now + Quantum <= MaxTime
    /\ now' = now + Quantum
    /\ UNCHANGED << cfg, cache, pc, out, calls, op, arg, result >>

\* A status request runs from its start to its yield.  The handler has no
\* await, so nothing else runs in between.
StatusCommand(r) ==
    /\ pc[r] = "idle"
    /\ \E env \in StatusEnvs, d1 \in Delays, d2 \in Delays :
         LET res == status_command(cache, now, env, d1, d2)
         IN  /\ now + res.elapsed <= MaxTime
             /\ cache' = res.cache
             /\ now' = now + res.elapsed
             /\ out' = [out EXCEPT ![r] = res.results]
             /\ calls' = [calls EXCEPT ![r] = [collect |-> res.collects,
                                               render |-> res.renders]]
             /\ op' = Op("status", StatusKey, res.at, res.path, res.lookup, None,
                         res.removed, res.swept)
    /\ pc' = [pc EXCEPT ![r] = "yielded"]
    /\ UNCHANGED << cfg, arg, result >>

\* The framework resumes the generator after its yield; it returns and the
\* request is over.
StatusReturn(r) ==
    /\ pc[r] = "yielded"
    /\ pc' = [pc EXCEPT ![r] = "idle"]
    /\ out' = [out EXCEPT ![r] = <<>>]
    /\ calls' = [calls EXCEPT ![r] = [collect |-> 0, render |-> 0]]
    /\ UNCHANGED << cfg, cache, now, op, arg, result >>

\* status_config: reports the configuration and len(self.cache).
StatusConfigCommand ==
    /\ op' = Op("status_config", NoKey, now, "config", "none", None,
                Cardinality(DOMAIN cache), FALSE)
    /\ UNCHANGED << cfg, cache, now, pc, out, calls, arg, result >>

\* clear_count with a fault: len() taken after the clear.
clear_count_after(c) == 0

\* cache_count = len(self.cache), taken before self.cache.clear().
clear_count(c) == Cardinality(DOMAIN c)

\* status_clear_cache.
ClearCacheCommand ==
    /\ cache' = EmptyCache
    /\ op' = Op("status_clear_cache", NoKey, now, "clear", "none", None,
                clear_count(cache), FALSE)
    /\ UNCHANGED << cfg, now, pc, out, calls, arg, result >>

Next ==
    \/ Tick
    \/ \E r \in Requests : StatusCommand(r)
    \/ \E r \in Requests : StatusReturn(r)
    \/ StatusConfigCommand
    \/ ClearCacheCommand

Spec == Init /\ [][Next]_vars

\* The plugin's three commands, one status request at a time.
NextCommands ==
    \/ Tick
    \/ StatusCommand(1)
    \/ StatusReturn(1)
    \/ StatusConfigCommand
    \/ ClearCacheCommand

SpecCommands == Init /\ [][NextCommands]_vars

\* Bursts of status requests: up to NumReq of them in flight together.
NextBurst ==
    \/ Tick
    \/ \E r \in Requests : StatusCommand(r)
    \/ \E r \in Requests : StatusReturn(r)

SpecBurst == Init /\ [][NextBurst]_vars

\* ------------------------------------------------ the cache methods called directly

OtherKey == get_cache_key(<< "other" >>)

Keys == {StatusKey, OtherKey}

\* Byte strings a caller may store: b"" and a non-empty one.
SomeBytes == << Draw("label", "nickname", "AstrBot", <<>>) >>
ApiImages == { <<>>, SomeBytes }

GetCachedImage(k) ==
    /\ LET res == get_cached_image(cache, k, now)
       IN  /\ cache' = res.cache
           /\ op' = Op("get_cached_image", k, now, res.path, res.path, res.ret, 0, FALSE)
    /\ UNCHANGED << cfg, now, pc, out, calls, arg, result >>

CacheImage(k, v) ==
    /\ cache' = cache_image(cache, k, v, now)
    /\ op' = Op("cache_image", k, now, "put", "none", Some(v), 0, FALSE)
    /\ UNCHANGED << cfg, now, pc, out, calls, arg, result >>

\* The plugin with one request slot, its commands, and its cache methods
\* called directly on two keys.
NextCache ==
    \/ Tick
    \/ StatusCommand(1)
    \/ StatusReturn(1)
    \/ ClearCacheCommand
    \/ \E k \in Keys : GetCachedImage(k)
    \/ \E k \in Keys, v \in ApiImages : CacheImage(k, v)

SpecCache == Init /\ [][NextCache]_vars
\* --------------------------------------- the collector and the compositor alone

\* Every combination of failing queries, on otherwise healthy answers.
FailureEnvs ==
    { [BaseEnv EXCEPT !.cpu_exc = c, !.mem_exc = m, !.swap_exc = s,
                      !.disk_exc = d, !.net_exc = n, !.sys_exc = y,
                      !.pynvml = p, !.gputil = g] :
        c \in {NoExc, "OSError"}, m \in {NoExc, "OSError"},
        s \in {NoExc, "OSError", "RuntimeError"}, d \in {NoExc, "OSError"},
        n \in {NoExc, "AttributeError"}, y \in {NoExc, "OSError"},
        p \in {"ok", "ImportError", "NVMLError"},
        g \in {"ok", "empty", "ImportError", "RuntimeError"} }

\* <<total, used>> in MiB: nothing at all, 4 MiB (0.0 GB once rounded), 2 GiB.
Capacities == { <<0, 0>>, <<4, 2>>, <<2048, 512>> }

\* <<pynvml, GPUtil>> outcomes.
GpuBackends ==
    { <<"ok", "ImportError">>, <<"ImportError", "ok">>,
      <<"ImportError", "empty">>, <<"NVMLError", "ok">> }

\* <<bytes_sent, bytes_recv>>: no traffic, the 25/75 split, one idle
\* direction, thirds, eighths (a tie of the .0f format), and a split whose
\* quotient is not a binary fraction.
NetCounters ==
    { <<0, 0>>, <<100, 300>>, <<0, 300>>, <<1, 2>>, <<128, 896>>, <<46, 34>> }

\* Every combination of reported values, with no query failing.
ValueEnvs ==
    { [BaseEnv EXCEPT !.mem_total = m[1], !.mem_used = m[2],
                      !.swap_total = s[1], !.swap_used = s[2],
                      !.disk_total = d[1], !.disk_used = d[2],
                      !.bytes_sent = n[1], !.bytes_recv = n[2],
                      !.pynvml = b[1], !.gputil = b[2],
                      !.gpu_mem_total = g[1], !.gpu_mem_used = g[2],
                      !.gpu_usage = u] :
        m \in Capacities \ { <<0, 0>> }, s \in Capacities, d \in Capacities,
        n \in NetCounters, b \in GpuBackends,
        g \in { <<0, 0>>, <<2048, 512>> }, u \in {0, 50} }

UptimeInputs ==
    { d * SecondsPerDay + h * SecondsPerHour + m * SecondsPerMinute + sec :
        d \in 0..MaxDays, h \in {0, 1, 23}, m \in {0, 1, 59}, sec \in {0, 5, 30} }

UptimeEnvs == { [BaseEnv EXCEPT !.uptime_seconds = u] : u \in UptimeInputs }

EnvSpace == FailureEnvs \cup ValueEnvs \cup UptimeEnvs

\* Byte counts handed to format_bytes: every digit of the numeral is 0, 1,
\* half a step or one short of a step; the last digit stays small enough for
\* the count to be below 2^53.
StepDigits == {0, 1, UnitStep \div 2, UnitStep - 1}
ByteCounts ==
    { << d0, d1, d2, d3, d4, d5 >> :
        d0 \in StepDigits, d1 \in StepDigits, d2 \in StepDigits,
        d3 \in StepDigits, d4 \in StepDigits, d5 \in 0..MaxPb }
ByteArgs == { [bytes_value |-> b] : b \in ByteCounts }

InitCard ==
    /\ InitPlugin
    /\ cfg.deps_ok /\ cfg.cache_enabled /\ cfg.show_network
    /\ cfg.cache_expire = 0
    /\ \/ arg \in EnvSpace
       \/ arg \in ByteArgs
    /\ result = NoArg

CallGetAllStatusInfo ==
    /\ result.fn = "none"
    /\ arg \in EnvSpace
    /\ result' = [fn |-> "get_all_status_info", ret |-> get_all_status_info(arg)]
    /\ UNCHANGED << cfg, cache, now, pc, out, calls, op, arg >>

CallGetGpuInfo ==
    /\ result.fn = "none"
    /\ arg \in EnvSpace
    /\ result' = [fn |-> "get_gpu_info", ret |-> get_gpu_info(arg)]
    /\ UNCHANGED << cfg, cache, now, pc, out, calls, op, arg >>

CallFormatUptime ==
    /\ result.fn = "none"
    /\ arg \in EnvSpace
    /\ result' = [fn |-> "format_uptime", ret |-> format_uptime(arg.uptime_seconds)]
    /\ UNCHANGED << cfg, cache, now, pc, out, calls, op, arg >>

CallFormatBytes ==
    /\ result.fn = "none"
    /\ arg \in ByteArgs
    /\ result' = [fn |-> "format_bytes", ret |-> format_bytes(arg.bytes_value)]
    /\ UNCHANGED << cfg, cache, now, pc, out, calls, op, arg >>

\* render() on the collector's snapshot, with the network entry popped when
\* show_network is off (main.py lines 195-196).
CallRender(show_network) ==
    /\ result.fn = "get_all_status_info"
    /\ result.ret.ok
    /\ LET status_info == IF show_network THEN result.ret.val
                          ELSE [result.ret.val EXCEPT !.network = <<>>]
       IN  result' = [fn |-> "render", info |-> status_info,
                      ret |-> render(status_info)]
    /\ UNCHANGED << cfg, cache, now, pc, out, calls, op, arg >>

NextCard ==
    \/ CallGetAllStatusInfo
    \/ CallGetGpuInfo
    \/ CallFormatUptime
    \/ CallFormatBytes
    \/ \E show_network \in BOOLEAN : CallRender(show_network)

SpecCard == InitCard /\ [][NextCard]_vars
\* ================================================================= properties

\* A call of one of the cache methods or of a reply-only command is a step
\* that changes op; a status request is a step that takes request 1 from
\* idle to its yield.
Called(name) == op' # op /\ op'.name = name
StatusRan == pc[1] = "idle" /\ pc'[1] = "yielded"

IsExpired(c, k, t) == k \in DOMAIN c /\ t - c[k].timestamp > cfg.cache_expire
IsFresh(c, k, t) == k \in DOMAIN c /\ t - c[k].timestamp <= cfg.cache_expire

\* C1: get_cached_image(key) returns bytes only if the map holds an entry for
\* key with now - timestamp <= cache_expire (and then that entry's bytes); if
\* the entry exists with now - timestamp > cache_expire the call returns None
\* and the entry is gone from the map afterwards.
C1_GetOnlyFresh ==
    [][ Called("get_cached_image") =>
          LET k == op'.key
          IN  /\ op'.ret.some =>
                   /\ IsFresh(cache, k, now)
                   /\ op'.ret.val = cache[k].image_data
              /\ IsExpired(cache, k, now) =>
                   /\ op'.ret = None
                   /\ k \notin DOMAIN cache' ]_vars

C1_Witness ==
    /\ op.name = "get_cached_image"
    /\ op.path = "expired"
    /\ op.ret = None
    /\ op.key \notin DOMAIN cache

\* C2 as stated: for every key and value, cache_image(k, v) followed by
\* get_cached_image(k) no more than cache_expire seconds later returns v.
C2_PutGetAlways ==
    [][ ( /\ Called("get_cached_image")
          /\ op.name = "cache_image"
          /\ op'.key = op.key
          /\ op'.at - op.at <= cfg.cache_expire )
        => op'.ret = Some(op.ret.val) ]_vars

\* C2 amended: with cache_enabled true, cache_image(k, v) leaves k mapped to
\* (v, now), whatever k held before, and leaves the other keys alone; a
\* get_cached_image(k) that follows no more than cache_expire seconds later
\* returns exactly v.
C2_PutGetEnabled ==
    [][ /\ ( Called("cache_image") /\ cfg.cache_enabled ) =>
              /\ DOMAIN cache' = DOMAIN cache \cup {op'.key}
              /\ cache'[op'.key] = [image_data |-> op'.ret.val, timestamp |-> now]
              /\ \A k \in DOMAIN cache \ {op'.key} : cache'[k] = cache[k]
        /\ ( /\ Called("get_cached_image")
             /\ cfg.cache_enabled
             /\ op.name = "cache_image"
             /\ op'.key = op.key
             /\ op'.at - op.at <= cfg.cache_expire )
           => op'.ret = Some(op.ret.val) ]_vars

C2_Witness ==
    /\ op.name = "get_cached_image"
    /\ op.ret = Some(SomeBytes)
    /\ op.key \in DOMAIN cache
    /\ cache[op.key].timestamp > 0
    /\ op.at > cache[op.key].timestamp

\* C3: status_clear_cache leaves the map empty and reports the number of
\* entries, fresh or expired, the map held just before; a get_cached_image
\* that follows returns None for any key.
C3_ClearReportsCount ==
    [][ /\ Called("status_clear_cache") =>
              /\ cache' = EmptyCache
              /\ op'.count = Cardinality(DOMAIN cache)
        /\ ( Called("get_cached_image") /\ op.name = "status_clear_cache" )
           => op'.ret = None ]_vars

C3_Witness ==
    /\ op.name = "status_clear_cache"
    /\ op.count = 2
    /\ cache = EmptyCache

\* C4: when the sweep has run (at time now', at the end of a status request
\* that rendered and stored), no entry left is older than cache_expire, and
\* every entry that was not older than cache_expire is still there with its
\* bytes and timestamp; the sweep runs on the cache-miss path of the status
\* command only: any other step removes an entry only by clearing the map or
\* by looking up that very key and finding it expired.
C4_SweepExact ==
    [][ /\ ( StatusRan /\ op'.swept ) =>
              /\ \A k \in DOMAIN cache' : ~IsExpired(cache', k, now')
              /\ \A k \in DOMAIN cache \ {StatusKey} :
                    IsFresh(cache, k, now') =>
                       k \in DOMAIN cache' /\ cache'[k] = cache[k]
              /\ ( cfg.cache_enabled /\ now' - op'.at <= cfg.cache_expire ) =>
                    /\ StatusKey \in DOMAIN cache'
                    /\ cache'[StatusKey] = [image_data |-> out'[1][1].image,
                                            timestamp |-> op'.at]
        /\ op'.swept => ( op'.name = "status" /\ op'.path = "miss" )
        /\ ~( StatusRan /\ op'.path = "miss" ) =>
              \A k \in DOMAIN cache \ DOMAIN cache' :
                 \/ op'.name = "status_clear_cache"
                 \/ k = op'.key /\ IsExpired(cache, k, now) ]_vars

C4_Witness ==
    /\ op.name = "status"
    /\ op.path = "miss"
    /\ op.swept
    /\ op.count = 1
    /\ DOMAIN cache = {StatusKey}

\* C7: a status request in which the collection or the rendering raises
\* yields exactly one result, the generic failure text, and no image, and
\* leaves the map as the lookup left it: the same entries, less only an
\* expired entry of the request's own key; nothing is stored.
C7_FailureYieldsTextOnly ==
    [][ ( StatusRan /\ op'.path \in {"collect_failed", "render_failed"} ) =>
          /\ out'[1] = << plain_result("failed") >>
          /\ cache' = IF IsExpired(cache, StatusKey, now)
                      THEN [k \in DOMAIN cache \ {StatusKey} |-> cache[k]]
                      ELSE cache ]_vars

C7_Witness ==
    /\ op.name = "status"
    /\ op.path = "render_failed"
    /\ pc[1] = "yielded"
    /\ out[1] = << plain_result("failed") >>
    /\ calls[1] = [collect |-> 1, render |-> 1]
    /\ DOMAIN cache = {StatusKey, OtherKey}

\* C5 as stated: get_all_status_info never raises; whatever queries fail, it
\* returns a complete snapshot with the failed metrics zeroed.
C5_CollectNeverRaises ==
    result.fn = "get_all_status_info" =>
        /\ result.ret.ok
        /\ arg.swap_exc # NoExc => result.ret.val.swap = ZeroSwap

\* C6 as stated: no used/total percentage divides by zero, in the collector
\* or in the compositor; a snapshot whose memory or disk total is 0 renders.
C6_NoDivisionByZero ==
    result.fn \in {"get_all_status_info", "render"} =>
        ( result.ret.ok \/ result.ret.exc # "ZeroDivisionError" )

Units(uptime) == [i \in 1..Len(uptime) |-> uptime[i].unit]

\* C8 as stated: format_uptime shows days and hours and no minutes when
\* days > 0, hours and minutes when days = 0 and hours > 0, minutes alone
\* otherwise.
C8_TwoUnits ==
    result.fn = "format_uptime" =>
        LET days == arg.uptime_seconds \div SecondsPerDay
            hours == (arg.uptime_seconds % SecondsPerDay) \div SecondsPerHour
        IN  Units(result.ret) =
              IF days > 0 THEN << "days", "hours" >>
              ELSE IF hours > 0 THEN << "hours", "minutes" >>
              ELSE << "minutes" >>

\* C8 amended: format_uptime shows days, hours and minutes when days > 0,
\* hours and minutes (no days) when days = 0 and hours > 0, minutes alone
\* when both are 0; each number is the whole count of its unit left after
\* the coarser ones.
C8_CoarsestNonZeroFirst ==
    result.fn = "format_uptime" =>
        LET days == arg.uptime_seconds \div SecondsPerDay
            hours == (arg.uptime_seconds - days * SecondsPerDay) \div SecondsPerHour
            minutes == (arg.uptime_seconds - days * SecondsPerDay
                        - hours * SecondsPerHour) \div SecondsPerMinute
            d == [n |-> days, unit |-> "days"]
            h == [n |-> hours, unit |-> "hours"]
            m == [n |-> minutes, unit |-> "minutes"]
        IN  result.ret = IF days > 0 THEN << d, h, m >>
                         ELSE IF hours > 0 THEN << h, m >>
                         ELSE << m >>

C8_Witness ==
    /\ result.fn = "format_uptime"
    /\ arg.uptime_seconds = 90000
    /\ result.ret = << [n |-> 1, unit |-> "days"], [n |-> 1, unit |-> "hours"],
                       [n |-> 0, unit |-> "minutes"] >>

\* A ring arc, a percent label or a value row drawn for a metric.
Drawn(draws, slot) ==
    \E i \in 1..Len(draws) :
        draws[i].slot = slot /\ draws[i].kind \in {"arc", "percent", "row"}

\* C9 as stated: with swap total = 0, with the collector's zero-valued GPU
\* placeholder, or with the network entry dropped, the card has no ring arc,
\* no percent label and no value row for that metric.
C9_OptionalSuppressed ==
    ( result.fn = "render" /\ result.ret.ok ) =>
        /\ result.info.swap.total = 0 => ~Drawn(result.ret.val, "swap")
        /\ result.info.gpu \in {NoGpu, UnknownGpu} => ~Drawn(result.ret.val, "gpu")
        /\ ~HasNetwork(result.info) =>
              /\ ~Drawn(result.ret.val, "download")
              /\ ~Drawn(result.ret.val, "upload")

IsPlaceholder(info) == info \in {NoGpu, UnknownGpu}

\* C10 as stated: pynvml is tried first; on any failure of it GPUtil is
\* tried; a placeholder is returned only when both fail or list no device,
\* and it is named "No GPU".
C10_FallbackChain ==
    result.fn = "get_gpu_info" =>
        /\ result.ret.probed[1] = "pynvml"
        /\ arg.pynvml # "ok" => result.ret.probed = << "pynvml", "GPUtil" >>
        /\ IsPlaceholder(result.ret.info) =>
              /\ arg.pynvml # "ok"
              /\ arg.gputil # "ok"
              /\ result.ret.info.name = "No GPU"

\* C10 amended: pynvml is tried first; GPUtil is tried next only when pynvml
\* cannot be imported; any other error of either probe ends the probing with
\* the placeholder named "No GPU"; when neither can be imported, or GPUtil
\* lists no device, the placeholder is named "Unknown GPU".  A value is
\* returned in every case.
C10_ImportErrorFallsThrough ==
    result.fn = "get_gpu_info" =>
        /\ result.ret.probed[1] = "pynvml"
        /\ arg.pynvml = "ok" =>
              /\ result.ret.probed = << "pynvml" >>
              /\ ~IsPlaceholder(result.ret.info)
        /\ arg.pynvml = "ImportError" =>
              /\ result.ret.probed = << "pynvml", "GPUtil" >>
              /\ arg.gputil = "ok" => ~IsPlaceholder(result.ret.info)
              /\ arg.gputil \in {"ImportError", "empty"} =>
                    result.ret.info = UnknownGpu
              /\ arg.gputil \notin {"ok", "ImportError", "empty"} =>
                    result.ret.info = NoGpu
        /\ arg.pynvml \notin {"ok", "ImportError"} =>
              /\ result.ret.probed = << "pynvml" >>
              /\ result.ret.info = NoGpu

C10_Witness ==
    /\ result.fn = "get_gpu_info"
    /\ arg.pynvml = "NVMLError"
    /\ arg.gputil = "ok"
    /\ result.ret.probed = << "pynvml" >>
    /\ result.ret.info = NoGpu
\* C11 as stated: format_bytes picks the first of B, KB, MB, GB, TB in which
\* the value is < 1024, else PB, and prints one decimal; for every count
\* below 1024^5 the number printed is < 1024 (never "1024.0"); counts of
\* 1024^5 and more print in PB; 0 prints "0.0B", 1536 "1.5KB", 1024^4 "1.0TB".
C11_PrintedBelowStep ==
    result.fn = "format_bytes" =>
        /\ arg.bytes_value[6] = 0 => result.ret[1] < 10 * UnitStep
        /\ arg.bytes_value[6] > 0 => result.ret[2] = 5
        /\ arg.bytes_value = Bytes1024(0) => result.ret = << 0, 0 >>
        /\ arg.bytes_value = Bytes1024(1536) => result.ret = << 15, 1 >>
        /\ arg.bytes_value = << 0, 0, 0, 0, 1, 0 >> => result.ret = << 10, 4 >>
\* x and y are the same double or neighbouring doubles of one exponent.
WithinOneUlp(x, y) ==
    \/ x = y
    \/ /\ x.sig # <<>> /\ y.sig # <<>> /\ x.exp = y.exp
       /\ (IncBits(x.sig) = y.sig \/ IncBits(y.sig) = x.sig)

Has(draws, d) == \E i \in 1..Len(draws) : draws[i] = d

Abs(n) == IF n < 0 THEN 0 - n ELSE n

\* What C12 says of both versions: each direction's share is 0 when no byte
\* was counted, 75 (download) and 25 (upload) for 100 sent and 300 received;
\* the label printed is the share to the nearest integer, so within one half
\* of this_direction * 100 / (bytes_sent + bytes_recv); the ring arc is drawn
\* from the byte count alone.
SharesAsComputed(info, draws) ==
    LET net == info.network[1]
        total == net.bytes_sent + net.bytes_recv
        down == network_share(net.bytes_recv, info)
        up == network_share(net.bytes_sent, info)
    IN  /\ total = 0 => down = FZero /\ up = FZero
        /\ (net.bytes_sent = 100 /\ net.bytes_recv = 300) =>
              down = FInt(75) /\ up = FInt(25)
        /\ Has(draws, PercentOfFloat("download", down))
        /\ Has(draws, PercentOfFloat("upload", up))
        /\ total > 0 =>
              /\ 2 * Abs(FFormat0(down) * total - net.bytes_recv * 100) <= total
              /\ 2 * Abs(FFormat0(up) * total - net.bytes_sent * 100) <= total
        /\ Has(draws, LogArc("download", net.bytes_recv))
        /\ Has(draws, LogArc("upload", net.bytes_sent))

\* C12 as stated: the directional shares are this_direction / total * 100, 0
\* for both when no byte was counted, 75 and 25 for 100 sent and 300
\* received, independent of the ring's log scale, and whenever the total is
\* > 0 the two unrounded shares sum to 100.
C12_SharesSumTo100 ==
    ( result.fn = "render" /\ result.ret.ok /\ HasNetwork(result.info) ) =>
        LET net == result.info.network[1]
        IN  /\ SharesAsComputed(result.info, result.ret.val)
            /\ net.bytes_sent + net.bytes_recv > 0 =>
                  FAdd(network_share(net.bytes_recv, result.info),
                       network_share(net.bytes_sent, result.info)) = FInt(100)

\* C12 amended: as stated, except that the two unrounded shares, being
\* floats, sum to 100 or to a double next to 100.
C12_SharesSumNear100 ==
    ( result.fn = "render" /\ result.ret.ok /\ HasNetwork(result.info) ) =>
        LET net == result.info.network[1]
        IN  /\ SharesAsComputed(result.info, result.ret.val)
            /\ net.bytes_sent + net.bytes_recv > 0 =>
                  WithinOneUlp(FAdd(network_share(net.bytes_recv, result.info),
                                    network_share(net.bytes_sent, result.info)),
                               FInt(100))

C12_Witness ==
    /\ result.fn = "render"
    /\ result.ret.ok
    /\ HasNetwork(result.info)
    /\ result.info.network[1] = [bytes_sent |-> 1, bytes_recv |-> 2]
    /\ Has(result.ret.val, Draw("percent", "download", ".0f%", << 67 >>))
    /\ Has(result.ret.val, Draw("percent", "upload", ".0f%", << 33 >>))
    /\ FAdd(network_share(2, result.info), network_share(1, result.info)) # FInt(100)
\* Request r runs its handler in this step; request r is in flight, i.e.
\* suspended at its yield.
Ran(r) == pc[r] = "idle" /\ pc'[r] = "yielded"
InFlight(r) == pc[r] = "yielded"

\* The map holds a fresh, non-empty image under the status key.
WarmAt(c, t) == IsFresh(c, StatusKey, t) /\ Len(c[StatusKey].image_data) > 0

\* C13 as stated: there is no single-flight guard, so a request that starts
\* while another request that met a cold cache is still in flight invokes
\* the collector (and, when that succeeds, the renderer) itself: the
\* collector runs once per request, not once per burst.
C13_EachRequestCollects ==
    [][ \A r \in Requests :
          ( /\ Ran(r)
            /\ cfg.deps_ok
            /\ \E q \in Requests \ {r} : InFlight(q) /\ calls[q].collect = 1 )
          => calls'[r].collect = 1 ]_vars

\* C13 amended: the handler runs from its lookup to its store without giving
\* up control, so requests never interleave inside it.  A request that
\* collects and renders has, by the time it is suspended at its yield,
\* stored its image (if caching is enabled and the entry has not already
\* aged out); a request that starts while the map holds a fresh image is
\* served that image and invokes neither collector nor renderer, whoever
\* else is in flight; only a request that starts on a cold map (disabled,
\* empty, cleared or expired) collects.
C13_SerializedRequests ==
    [][ \A r \in Requests :
          ( Ran(r) /\ cfg.deps_ok ) =>
             /\ ( cfg.cache_enabled /\ WarmAt(cache, now) ) =>
                   /\ calls'[r] = [collect |-> 0, render |-> 0]
                   /\ out'[r] = << image_result(cache[StatusKey].image_data) >>
             /\ ~( cfg.cache_enabled /\ WarmAt(cache, now) ) =>
                   calls'[r].collect = 1
             /\ ( /\ calls'[r].render = 1
                  /\ out'[r][1].type = "image"
                  /\ cfg.cache_enabled
                  /\ now' - op'.at <= cfg.cache_expire ) =>
                   /\ StatusKey \in DOMAIN cache'
                   /\ cache'[StatusKey] = [image_data |-> out'[r][1].image,
                                           timestamp |-> op'.at] ]_vars

\* Two requests in flight together after a cold start: the first collected
\* and rendered, the second was served the first one's image from the map.
C13_Witness ==
    /\ InFlight(1) /\ InFlight(2)
    /\ calls[1] = [collect |-> 1, render |-> 1]
    /\ calls[2] = [collect |-> 0, render |-> 0]
    /\ out[1][1].type = "image"
    /\ out[2] = out[1]
    /\ op.path = "hit"
\* C14: a cache hit never refreshes an entry's timestamp.  An entry is only
\* ever written by a request that rendered, with that image and the time the
\* render completed; a request served from the map leaves the entry as it
\* was and finds it no older than cache_expire; a request that finds the
\* entry older than cache_expire is not served from it.  So every image
\* served from the cache was rendered at most cache_expire seconds before.
C14_HitKeepsTimestamp ==
    [][ /\ \A k \in DOMAIN cache' :
              ( k \notin DOMAIN cache \/ cache'[k] # cache[k] ) =>
                 \E r \in Requests :
                    /\ Ran(r)
                    /\ op'.path = "miss"
                    /\ calls'[r].render = 1
                    /\ cache'[k] = [image_data |-> out'[r][1].image,
                                    timestamp |-> op'.at]
                    /\ now <= op'.at /\ op'.at <= now'
        /\ \A r \in Requests :
              ( Ran(r) /\ op'.path = "hit" ) =>
                 /\ cache' = cache
                 /\ out'[r] = << image_result(cache[StatusKey].image_data) >>
                 /\ now - cache[StatusKey].timestamp <= cfg.cache_expire
        /\ \A r \in Requests :
              ( Ran(r) /\ IsExpired(cache, StatusKey, now) ) => op'.path # "hit" ]_vars

\* A hit on an entry exactly cache_expire seconds old, the entry still
\* carrying the time of its render.
C14_Witness ==
    /\ op.name = "status"
    /\ op.path = "hit"
    /\ cfg.cache_expire > 0
    /\ StatusKey \in DOMAIN cache
    /\ now - cache[StatusKey].timestamp = cfg.cache_expire
\* C15: a status request that gets as far as its lookup (dependencies
\* loaded, caching enabled) and finds a fresh, non-empty image under its key
\* yields exactly that image and nothing else, invokes neither the collector
\* nor the renderer, and leaves the whole map -- every key, image and
\* timestamp, expired entries of other keys included -- as it was: the sweep
\* does not run.  A fresh but empty image is not served.
C15_HitIsReadOnly ==
    [][ ( /\ StatusRan
          /\ cfg.deps_ok
          /\ cfg.cache_enabled
          /\ IsFresh(cache, StatusKey, now) ) =>
           IF Len(cache[StatusKey].image_data) > 0
           THEN /\ op'.path = "hit"
                /\ out'[1] = << image_result(cache[StatusKey].image_data) >>
                /\ calls'[1] = [collect |-> 0, render |-> 0]
                /\ cache' = cache
                /\ ~op'.swept
                /\ now' = now
           ELSE /\ op'.path # "hit"
                /\ calls'[1].collect = 1 ]_vars

\* A request served from the map while an expired entry of another key is
\* still in the map.
C15_Witness ==
    /\ op.name = "status"
    /\ op.path = "hit"
    /\ pc[1] = "yielded"
    /\ calls[1] = [collect |-> 0, render |-> 0]
    /\ StatusKey \in DOMAIN cache
    /\ out[1] = << image_result(cache[StatusKey].image_data) >>
    /\ IsExpired(cache, OtherKey, now)
\* With caching disabled the map is empty, a lookup of any key returns None
\* and leaves the map alone, and a store of any image under any key changes
\* nothing.
DisabledCacheIsInert ==
    ~cfg.cache_enabled =>
        /\ cache = EmptyCache
        /\ \A k \in Keys :
              /\ get_cached_image(cache, k, now).ret = None
              /\ get_cached_image(cache, k, now).cache = cache
        /\ \A k \in Keys, v \in ApiImages : cache_image(cache, k, v, now) = cache

\* C16 as stated: with cache_enabled false, after any sequence of status,
\* status_config and status_clear_cache commands the map is empty,
\* get_cached_image returns None for every key, cache_image stores nothing,
\* and every status request invokes the collector and the renderer.
C16_DisabledAlwaysRecomputes ==
    /\ []DisabledCacheIsInert
    /\ [][ \A r \in Requests :
             ( Ran(r) /\ ~cfg.cache_enabled ) =>
                calls'[r] = [collect |-> 1, render |-> 1] ]_vars

\* C16 amended: as stated, except that a status request invokes the
\* collector only once it is past the dependency check, and the renderer
\* only if the collector returned; no request is served from the map.
C16_DisabledNeverServes ==
    /\ []DisabledCacheIsInert
    /\ [][ \A r \in Requests :
             ( Ran(r) /\ ~cfg.cache_enabled ) =>
                /\ op'.path # "hit"
                /\ calls'[r].collect = (IF cfg.deps_ok THEN 1 ELSE 0)
                /\ calls'[r].render =
                      (IF op'.path \in {"miss", "render_failed"} THEN 1 ELSE 0)
                /\ op'.path \in {"no_deps", "collect_failed", "render_failed", "miss"}
                /\ op'.path = "no_deps" <=> ~cfg.deps_ok ]_vars

\* With caching disabled, a request has collected and rendered, is
\* suspended at its yield with the image, and the map is still empty.
C16_Witness ==
    /\ ~cfg.cache_enabled
    /\ InFlight(1)
    /\ calls[1] = [collect |-> 1, render |-> 1]
    /\ out[1][1].type = "image"
    /\ op.path = "miss"
    /\ op.lookup = "disabled"
    /\ cache = EmptyCache

\* C17: the configuration is read once and never changes, and the key of a
\* status request is derived from "status", theme, show_network and
\* show_process_count alone, so every status request of the plugin uses one
\* key; the map therefore never holds an entry under another key nor more
\* than one entry, and status_clear_cache (like status_config) reports a
\* count of 0 or 1.
C17_AtMostOneEntry ==
    /\ [](/\ DOMAIN cache \subseteq
               { get_cache_key(<< "status", cfg.theme, Str(cfg.show_network),
                                  Str(cfg.show_process_count) >>) }
          /\ Cardinality(DOMAIN cache) <= 1)
    /\ [][ /\ cfg' = cfg
           /\ Called("status") =>
                 op'.key = get_cache_key(<< "status", cfg.theme, Str(cfg.show_network),
                                            Str(cfg.show_process_count) >>)
           /\ ( Called("status_clear_cache") \/ Called("status_config") ) =>
                 /\ op'.count \in {0, 1}
                 /\ op'.count = Cardinality(DOMAIN cache) ]_vars

\* status_clear_cache has just reported one entry, left by a status request.
C17_Witness ==
    /\ op.name = "status_clear_cache"
    /\ op.count = 1
    /\ cache = EmptyCache
    /\ \E r \in Requests : InFlight(r) /\ calls[r].render = 1
====
